---- MODULE Spec2Model ----
(***************************************************************************)
(* Control core of the viw editor (src/src/state.c): mode state, viewport  *)
(* scrolling, display-row mapping, cursor projection and the two edit      *)
(* command handlers (line break, backward delete).                         *)
(*                                                                         *)
(* state.c is the only source file present.  The document (buffer.c) and   *)
(* the screen (screen.c) are collaborators whose code is absent; their     *)
(* operations are modelled from the contract the specification gives in    *)
(* its sections 3, 4.5, 4.6 and 6 and from the way state.c uses them.      *)
(*                                                                         *)
(* Representation.  A row is [id, chars]: id stands for the row_t address  *)
(* (windows hold row addresses), chars is the character list.  Characters  *)
(* are small integers; 0 is the placeholder '0' of handle_enter.  The      *)
(* current row pointer buf->current is rows[current_row + 1].  r_current   *)
(* is buf->current->current as a 1-based position in the current row, 0    *)
(* for NULL.  current_row, current_char, top_row, cx, cy are 0-based as in *)
(* the C code.  The per-row is_dirty mark and prev_key are read by no      *)
(* operation of state.c and are left out.                                  *)
(***************************************************************************)
EXTENDS Integers, Sequences, FiniteSets, TLC

\* ------------------------------------------------------------------ bounds
MaxRows == 2
MaxChars == 3
MaxWindows == 2
MaxCmdLen == 1
\* The longest document of the viewport specification; ten rows is the first
\* row count of two digits.
ViewRows == 10

\* ------------------------------------------------------------- vocabulary
NORMAL == "NORMAL"
INSERT_FRONT == "INSERT_FRONT"
INSERT_BACK == "INSERT_BACK"
EX == "EX"
Modes == {NORMAL, INSERT_FRONT, INSERT_BACK, EX}

UP == "UP"
DOWN == "DOWN"
LEFT == "LEFT"
RIGHT == "RIGHT"
Directions == {UP, DOWN, LEFT, RIGHT}

insert_mode == <<"-", "-", " ", "I", "N", "S", "E", "R", "T", " ", "-", "-">>
normal_mode == <<"-", "-", " ", "N", "O", "R", "M", "A", "L", " ", "-", "-">>

Placeholder == 0
CmdChars == {"w", "q"}
RowIds == 1 .. (MaxRows + MaxWindows)
NullRow == 0

VARIABLES mode, cx, cy, top_row, to_refresh, padding_front,
          rows, current_row, current_char, r_current, status_row,
          num_windows, windows, status_bound,
          fault, lastOp, lastMode, snap, recomputed

vars == <<mode, cx, cy, top_row, to_refresh, padding_front,
          rows, current_row, current_char, r_current, status_row,
          num_windows, windows, status_bound,
          fault, lastOp, lastMode, snap, recomputed>>

\* The program state as one record, so that the C functions, which all take
\* a state_t *, become operators from state to state.
St ==
  [mode |-> mode, cx |-> cx, cy |-> cy, top_row |-> top_row,
   to_refresh |-> to_refresh, padding_front |-> padding_front,
   rows |-> rows, current_row |-> current_row, current_char |-> current_char,
   r_current |-> r_current, status_row |-> status_row,
   num_windows |-> num_windows, windows |-> windows,
   status_bound |-> status_bound, fault |-> fault]

Store(s) ==
  /\ mode' = s.mode
  /\ cx' = s.cx
  /\ cy' = s.cy
  /\ top_row' = s.top_row
  /\ to_refresh' = s.to_refresh
  /\ padding_front' = s.padding_front
  /\ rows' = s.rows
  /\ current_row' = s.current_row
  /\ current_char' = s.current_char
  /\ r_current' = s.r_current
  /\ status_row' = s.status_row
  /\ num_windows' = s.num_windows
  /\ windows' = s.windows
  /\ status_bound' = s.status_bound
  /\ fault' = s.fault

Min(a, b) == IF a < b THEN a ELSE b

\* ------------------------------------------------- document (buffer.c)
num_rows(s) == Len(s.rows)
CurrentChars(s) == s.rows[s.current_row + 1].chars
line_size(s) == Len(CurrentChars(s))

\* The text of the document: the characters of every line, in order.
Content(rs) == [i \in 1 .. Len(rs) |-> rs[i].chars]

WithChars(s, cs) == [s EXCEPT !.rows[s.current_row + 1].chars = cs]

\* Entering a row keeps the column current_char and places the row's
\* character pointer on that column, or on the last character when the row
\* is shorter (NULL when the row is empty).
EnterRow(s, row) ==
  LET n == Len(s.rows[row + 1].chars)
  IN [s EXCEPT !.current_row = row,
               !.r_current = IF n = 0 THEN 0 ELSE Min(s.current_char + 1, n)]

move_current(s, d) ==
  CASE d = UP ->
         IF s.current_row > 0 THEN EnterRow(s, s.current_row - 1) ELSE s
    [] d = DOWN ->
         IF s.current_row + 1 < num_rows(s)
           THEN EnterRow(s, s.current_row + 1) ELSE s
    [] d = LEFT ->
         IF s.r_current > 1
           THEN [s EXCEPT !.r_current = @ - 1, !.current_char = s.r_current - 2]
           ELSE s
    [] d = RIGHT ->
         IF s.r_current # 0 /\ s.r_current < line_size(s)
           THEN [s EXCEPT !.r_current = @ + 1, !.current_char = s.r_current]
           ELSE s

\* Insert c after the current character; the cursor moves onto c.
append_char(s, c) ==
  LET cs == CurrentChars(s)
      k == s.r_current
  IN [WithChars(s, SubSeq(cs, 1, k) \o <<c>> \o SubSeq(cs, k + 1, Len(cs)))
        EXCEPT !.r_current = k + 1, !.current_char = k]

\* Delete the current character; the cursor goes to the next character, or
\* to the previous one when the last character was deleted.
delete_char(s) ==
  LET cs == CurrentChars(s)
      k == s.r_current
      n == Len(cs)
      k2 == IF k < n THEN k ELSE k - 1
  IN IF k = 0 THEN s
     ELSE [WithChars(s, SubSeq(cs, 1, k - 1) \o SubSeq(cs, k + 1, n))
             EXCEPT !.r_current = k2,
                    !.current_char = IF k2 = 0 THEN 0 ELSE k2 - 1]

\* Split the current row before the current character.  The characters from
\* the cursor on go to a new row (address id) below; the cursor moves to the
\* start of the new row.
split_row(s, id) ==
  LET cs == CurrentChars(s)
      k == s.r_current
      upper == IF k = 0 THEN cs ELSE SubSeq(cs, 1, k - 1)
      lower == IF k = 0 THEN <<>> ELSE SubSeq(cs, k, Len(cs))
      i == s.current_row + 1
      old == s.rows[i]
  IN [s EXCEPT !.rows = SubSeq(s.rows, 1, i - 1)
                          \o <<[id |-> old.id, chars |-> upper],
                               [id |-> id, chars |-> lower]>>
                          \o SubSeq(s.rows, i + 1, Len(s.rows)),
               !.current_row = i,
               !.current_char = 0,
               !.r_current = IF lower = <<>> THEN 0 ELSE 1]

\* Join the current row onto the end of the previous row and release it.
\* The cursor goes to the first joined character, or to the last character
\* of the previous row when the current row was empty.  With no previous
\* row the contract defines no effect; the document is left as it is.
join_row(s) ==
  LET i == s.current_row + 1
  IN IF s.current_row = 0 THEN s
     ELSE LET prev == s.rows[i - 1]
              cs == s.rows[i].chars
              k == IF cs = <<>> THEN Len(prev.chars) ELSE Len(prev.chars) + 1
          IN [s EXCEPT !.rows = SubSeq(s.rows, 1, i - 2)
                                  \o <<[id |-> prev.id, chars |-> prev.chars \o cs]>>
                                  \o SubSeq(s.rows, i + 1, Len(s.rows)),
                       !.current_row = i - 2,
                       !.r_current = k,
                       !.current_char = IF k = 0 THEN 0 ELSE k - 1]

\* Status line operations (a row_t outside the document).
clear_row(r) == <<>>
add_char(r, c) == Append(r, c)
drop_char(r) == IF r = <<>> THEN r ELSE SubSeq(r, 1, Len(r) - 1)

RECURSIVE add_chars(_, _)
add_chars(r, text) ==
  IF text = <<>> THEN r ELSE add_chars(add_char(r, Head(text)), Tail(text))

\* ------------------------------------------------------ state.c: recompute
\* update_top_row with the scroll-down target one row short.
update_top_row_short(s) ==
  LET down == IF s.current_row >= s.top_row + s.num_windows
                THEN [s EXCEPT !.top_row = s.current_row - s.num_windows,
                               !.to_refresh = TRUE]
                ELSE s
  IN IF down.current_row < down.top_row
       THEN [down EXCEPT !.top_row = down.current_row, !.to_refresh = TRUE]
       ELSE down

\* update_top_row with the scroll-up branch not marking the relayout.
update_top_row_quiet(s) ==
  LET down == IF s.current_row >= s.top_row + s.num_windows
                THEN [s EXCEPT !.top_row = s.current_row - s.num_windows + 1,
                               !.to_refresh = TRUE]
                ELSE s
  IN IF down.current_row < down.top_row
       THEN [down EXCEPT !.top_row = down.current_row]
       ELSE down

\* update_top_row assigning to_refresh whether it scrolled, so that a pending
\* relayout is dropped when the row is visible.
update_top_row_assign(s) ==
  LET down == IF s.current_row >= s.top_row + s.num_windows
                THEN [s EXCEPT !.top_row = s.current_row - s.num_windows + 1,
                               !.to_refresh = TRUE]
                ELSE [s EXCEPT !.to_refresh = FALSE]
  IN IF down.current_row < down.top_row
       THEN [down EXCEPT !.top_row = down.current_row, !.to_refresh = TRUE]
       ELSE down

update_top_row(s) ==
  LET down == IF s.current_row >= s.top_row + s.num_windows
                THEN [s EXCEPT !.top_row = s.current_row - s.num_windows + 1,
                               !.to_refresh = TRUE]
                ELSE s
  IN IF down.current_row < down.top_row
       THEN [down EXCEPT !.top_row = down.current_row, !.to_refresh = TRUE]
       ELSE down

RECURSIVE num_digits(_)
num_digits(max_row) ==
  IF max_row > 0 THEN 1 + num_digits(max_row \div 10) ELSE 0

\* update_padding_front without the separator column.
update_padding_front_bare(s) ==
  [s EXCEPT !.padding_front = num_digits(num_rows(s))]

update_padding_front(s) ==
  [s EXCEPT !.padding_front = num_digits(num_rows(s)) + 1]

\* update_mode_status appending the label without clearing the row first.
update_mode_status_append(s) ==
  IF s.mode = INSERT_BACK \/ s.mode = INSERT_FRONT
    THEN [s EXCEPT !.status_row = add_chars(@, insert_mode)]
  ELSE IF s.mode = NORMAL
    THEN [s EXCEPT !.status_row = add_chars(@, normal_mode)]
  ELSE s

update_mode_status(s) ==
  IF s.mode = INSERT_BACK \/ s.mode = INSERT_FRONT
    THEN [s EXCEPT !.status_row = add_chars(clear_row(@), insert_mode)]
  ELSE IF s.mode = NORMAL
    THEN [s EXCEPT !.status_row = add_chars(clear_row(@), normal_mode)]
  ELSE s

\* update_cursor_position without the reset of line 73: the test of line 80
\* reads the column of the previous cycle.
update_cursor_position_stale(s) ==
  LET cy1 == s.current_row - s.top_row
      cx1 == IF line_size(s) = 0 THEN 0
             ELSE IF s.cx >= line_size(s) THEN line_size(s) - 1
             ELSE s.current_char
      cx2 == IF s.mode = INSERT_BACK /\ line_size(s) # 0 THEN cx1 + 1 ELSE cx1
  IN IF s.mode = EX
       THEN [s EXCEPT !.cy = s.num_windows, !.cx = Len(s.status_row)]
       ELSE [s EXCEPT !.cy = cy1, !.cx = cx2 + s.padding_front + 1]

\* Lines 73-84 test st->cx, which line 73 has just set to 0, against
\* line_size; the test is transcribed as written.
\* update_cursor_position adding the gutter offset in EX mode as well.
update_cursor_position_ex_gutter(s) ==
  LET cx0 == 0
      cy1 == s.current_row - s.top_row
      cx1 == IF line_size(s) = 0 THEN 0
             ELSE IF cx0 >= line_size(s) THEN line_size(s) - 1
             ELSE s.current_char
      cx2 == IF s.mode = INSERT_BACK /\ line_size(s) # 0 THEN cx1 + 1 ELSE cx1
      e == IF s.mode = EX
             THEN [s EXCEPT !.cy = s.num_windows, !.cx = Len(s.status_row)]
             ELSE [s EXCEPT !.cy = cy1, !.cx = cx2]
  IN [e EXCEPT !.cx = @ + s.padding_front + 1]

update_cursor_position(s) ==
  LET cx0 == 0
      cy1 == s.current_row - s.top_row
      cx1 == IF line_size(s) = 0 THEN 0
             ELSE IF cx0 >= line_size(s) THEN line_size(s) - 1
             ELSE s.current_char
      cx2 == IF s.mode = INSERT_BACK /\ line_size(s) # 0 THEN cx1 + 1 ELSE cx1
  IN IF s.mode = EX
       THEN [s EXCEPT !.cy = s.num_windows, !.cx = Len(s.status_row)]
       ELSE [s EXCEPT !.cy = cy1, !.cx = cx2 + s.padding_front + 1]

\* ScrSlot with the second loop leaving a slot as it is when the rows run
\* out.
ScrSlot_keep(s, j) ==
  LET i1 == s.current_row - j
      i2 == j + s.top_row
  IN IF s.top_row <= i1 /\ i1 <= s.current_row
       THEN [r |-> s.rows[(s.current_row - (i1 - s.top_row)) + 1].id,
             line_number |-> s.top_row + s.current_row - i1 + 1]
     ELSE IF s.current_row + 1 <= i2 /\ i2 < s.top_row + s.num_windows
       THEN IF i2 + 1 <= Len(s.rows)
              THEN [r |-> s.rows[i2 + 1].id, line_number |-> i2 + 1]
              ELSE s.windows[j + 1]
     ELSE s.windows[j + 1]

\* Slot j (0-based) after the two loops of update_scr_windows.  The first
\* loop walks r = r->prev from the current row and writes slots
\* current_row - i for i = top_row .. current_row; the second walks
\* r = r->next and writes slots i - top_row for
\* i = current_row + 1 .. top_row + num_windows - 1.
ScrSlot(s, j) ==
  LET i1 == s.current_row - j
      i2 == j + s.top_row
  IN IF s.top_row <= i1 /\ i1 <= s.current_row
       THEN [r |-> s.rows[(s.current_row - (i1 - s.top_row)) + 1].id,
             line_number |-> s.top_row + s.current_row - i1 + 1]
     ELSE IF s.current_row + 1 <= i2 /\ i2 < s.top_row + s.num_windows
       THEN IF i2 + 1 <= Len(s.rows)
              THEN [r |-> s.rows[i2 + 1].id, line_number |-> i2 + 1]
              ELSE [r |-> NullRow, line_number |-> 0]
     ELSE s.windows[j + 1]

update_scr_windows(s) ==
  [s EXCEPT !.status_bound = TRUE,
            !.windows = [j \in 1 .. s.num_windows |-> ScrSlot(s, j - 1)]]

\* update_state clearing to_refresh before it is tested.
update_state_flag_first(s) ==
  LET a == update_mode_status(s)
      b == update_top_row(a)
      c == [update_padding_front(b) EXCEPT !.to_refresh = FALSE]
      d == IF c.to_refresh THEN update_scr_windows(c) ELSE c
  IN update_cursor_position(d)

update_state(s) ==
  LET a == update_mode_status(s)
      b == update_top_row(a)
      c == update_padding_front(b)
      d == IF c.to_refresh
             THEN [update_scr_windows(c) EXCEPT !.to_refresh = FALSE]
             ELSE c
  IN update_cursor_position(d)

move_cursor(s, d) == move_current(s, d)

\* ----------------------------------------------------- state.c: handlers
\* handle_enter switching to INSERT_FRONT on an empty line too.
handle_enter_always_front(s, id) ==
  IF s.mode = INSERT_BACK /\ s.current_char = line_size(s) - 1
    THEN [delete_char(split_row(append_char(s, Placeholder), id))
            EXCEPT !.to_refresh = TRUE]
    ELSE LET a == IF s.mode = INSERT_BACK
                    THEN [move_current(s, RIGHT) EXCEPT !.mode = INSERT_FRONT]
                    ELSE s
         IN [split_row(a, id) EXCEPT !.to_refresh = TRUE]

\* handle_enter leaving the placeholder in the new line.
handle_enter_keep_placeholder(s, id) ==
  IF s.mode = INSERT_BACK /\ s.current_char = line_size(s) - 1
    THEN [split_row(append_char(s, Placeholder), id) EXCEPT !.to_refresh = TRUE]
    ELSE LET a == IF s.mode = INSERT_BACK /\ line_size(s) # 0
                    THEN [move_current(s, RIGHT) EXCEPT !.mode = INSERT_FRONT]
                    ELSE s
         IN [split_row(a, id) EXCEPT !.to_refresh = TRUE]

\* handle_enter not marking the relayout in the end-of-line case.
handle_enter_no_refresh(s, id) ==
  IF s.mode = INSERT_BACK /\ s.current_char = line_size(s) - 1
    THEN delete_char(split_row(append_char(s, Placeholder), id))
    ELSE LET a == IF s.mode = INSERT_BACK /\ line_size(s) # 0
                    THEN [move_current(s, RIGHT) EXCEPT !.mode = INSERT_FRONT]
                    ELSE s
         IN [split_row(a, id) EXCEPT !.to_refresh = TRUE]

\* For an empty line line_size - 1 is SIZE_MAX in C and -1 here; neither
\* equals a character offset.
\* handle_enter splitting without first moving past the current character.
handle_enter_no_advance(s, id) ==
  IF s.mode = INSERT_BACK /\ s.current_char = line_size(s) - 1
    THEN [delete_char(split_row(append_char(s, Placeholder), id))
            EXCEPT !.to_refresh = TRUE]
    ELSE LET a == IF s.mode = INSERT_BACK /\ line_size(s) # 0
                    THEN [s EXCEPT !.mode = INSERT_FRONT]
                    ELSE s
         IN [split_row(a, id) EXCEPT !.to_refresh = TRUE]

handle_enter(s, id) ==
  IF s.mode = INSERT_BACK /\ s.current_char = line_size(s) - 1
    THEN [delete_char(split_row(append_char(s, Placeholder), id))
            EXCEPT !.to_refresh = TRUE]
    ELSE LET a == IF s.mode = INSERT_BACK /\ line_size(s) # 0
                    THEN [move_current(s, RIGHT) EXCEPT !.mode = INSERT_FRONT]
                    ELSE s
         IN [split_row(a, id) EXCEPT !.to_refresh = TRUE]

\* The states a read through the NULL r->current can leave: the process
\* stops where it is, or the read yields some value and the branch goes
\* either way.  Every outcome is marked fault.
\* Line 218, r->current->prev on an empty line: stop, or join, or fall to
\* move_current/delete_char, which find no character to act on.
NullPrevOutcomes(s) ==
  { [s EXCEPT !.fault = TRUE],
    [join_row(s) EXCEPT !.to_refresh = TRUE, !.fault = TRUE],
    [delete_char(move_current(s, LEFT)) EXCEPT !.fault = TRUE] }

\* Line 250, r->current->next after the row's only character was deleted.
NullNextOutcomes(d) ==
  { [d EXCEPT !.fault = TRUE],
    [move_current(d, LEFT) EXCEPT !.fault = TRUE] }

\* handle_backspace whose INSERT_FRONT branch deletes the character under the
\* cursor without first moving left.
RECURSIVE handle_backspace_under(_)
handle_backspace_under(s) ==
  LET a == IF s.mode = EX
             THEN [move_current(s, LEFT) EXCEPT !.status_row = drop_char(@)]
             ELSE s
  IN IF a.mode = INSERT_FRONT
       THEN IF a.r_current = 0 THEN NullPrevOutcomes(a)
            ELSE IF a.r_current = 1
              THEN {[join_row(a) EXCEPT !.to_refresh = TRUE]}
            ELSE {delete_char(a)}
     ELSE IF a.mode = INSERT_BACK
       THEN IF a.r_current = 0
              THEN {[join_row(a) EXCEPT !.to_refresh = TRUE]}
            ELSE IF a.current_char = 0
              THEN IF line_size(a) = 1 THEN {delete_char(a)}
                   ELSE handle_backspace_under(
                          move_current([a EXCEPT !.mode = INSERT_FRONT], RIGHT))
            ELSE LET d == delete_char(a)
                 IN IF d.r_current = 0 THEN NullNextOutcomes(d)
                    ELSE IF d.r_current < line_size(d)
                      THEN {move_current(d, LEFT)}
                    ELSE {d}
     ELSE {a}

\* handle_backspace yields the set of states the call can end in.
\* handle_backspace whose EX branch also deletes the document character left
\* of the cursor.
RECURSIVE handle_backspace_ex_delete(_)
handle_backspace_ex_delete(s) ==
  LET a == IF s.mode = EX
             THEN [delete_char(move_current(s, LEFT))
                     EXCEPT !.status_row = drop_char(@)]
             ELSE s
  IN IF a.mode = INSERT_FRONT
       THEN IF a.r_current = 0 THEN NullPrevOutcomes(a)
            ELSE IF a.r_current = 1
              THEN {[join_row(a) EXCEPT !.to_refresh = TRUE]}
            ELSE {delete_char(move_current(a, LEFT))}
     ELSE IF a.mode = INSERT_BACK
       THEN IF a.r_current = 0
              THEN {[join_row(a) EXCEPT !.to_refresh = TRUE]}
            ELSE IF a.current_char = 0
              THEN IF line_size(a) = 1 THEN {delete_char(a)}
                   ELSE handle_backspace_ex_delete(
                          move_current([a EXCEPT !.mode = INSERT_FRONT], RIGHT))
            ELSE LET d == delete_char(a)
                 IN IF d.r_current = 0 THEN NullNextOutcomes(d)
                    ELSE IF d.r_current < line_size(d)
                      THEN {move_current(d, LEFT)}
                    ELSE {d}
     ELSE {a}

\* handle_backspace whose repair path recurses without moving right first.
RECURSIVE handle_backspace_no_advance(_)
handle_backspace_no_advance(s) ==
  LET a == IF s.mode = EX
             THEN [move_current(s, LEFT) EXCEPT !.status_row = drop_char(@)]
             ELSE s
  IN IF a.mode = INSERT_FRONT
       THEN IF a.r_current = 0 THEN NullPrevOutcomes(a)
            ELSE IF a.r_current = 1
              THEN {[join_row(a) EXCEPT !.to_refresh = TRUE]}
            ELSE {delete_char(move_current(a, LEFT))}
     ELSE IF a.mode = INSERT_BACK
       THEN IF a.r_current = 0
              THEN {[join_row(a) EXCEPT !.to_refresh = TRUE]}
            ELSE IF a.current_char = 0
              THEN IF line_size(a) = 1 THEN {delete_char(a)}
                   ELSE handle_backspace_no_advance(
                          [a EXCEPT !.mode = INSERT_FRONT])
            ELSE LET d == delete_char(a)
                 IN IF d.r_current = 0 THEN NullNextOutcomes(d)
                    ELSE IF d.r_current < line_size(d)
                      THEN {move_current(d, LEFT)}
                    ELSE {d}
     ELSE {a}

\* handle_backspace whose INSERT_FRONT join falls through to the deletion.
RECURSIVE handle_backspace_join_fall(_)
handle_backspace_join_fall(s) ==
  LET a == IF s.mode = EX
             THEN [move_current(s, LEFT) EXCEPT !.status_row = drop_char(@)]
             ELSE s
  IN IF a.mode = INSERT_FRONT
       THEN IF a.r_current = 0 THEN NullPrevOutcomes(a)
            ELSE IF a.r_current = 1
              THEN {delete_char(move_current(
                      [join_row(a) EXCEPT !.to_refresh = TRUE], LEFT))}
            ELSE {delete_char(move_current(a, LEFT))}
     ELSE IF a.mode = INSERT_BACK
       THEN IF a.r_current = 0
              THEN {[join_row(a) EXCEPT !.to_refresh = TRUE]}
            ELSE IF a.current_char = 0
              THEN IF line_size(a) = 1 THEN {delete_char(a)}
                   ELSE handle_backspace_join_fall(
                          move_current([a EXCEPT !.mode = INSERT_FRONT], RIGHT))
            ELSE LET d == delete_char(a)
                 IN IF d.r_current = 0 THEN NullNextOutcomes(d)
                    ELSE IF d.r_current < line_size(d)
                      THEN {move_current(d, LEFT)}
                    ELSE {d}
     ELSE {a}

RECURSIVE handle_backspace(_)
handle_backspace(s) ==
  LET a == IF s.mode = EX
             THEN [move_current(s, LEFT) EXCEPT !.status_row = drop_char(@)]
             ELSE s
  IN IF a.mode = INSERT_FRONT
       THEN IF a.r_current = 0 THEN NullPrevOutcomes(a)
            ELSE IF a.r_current = 1
              THEN {[join_row(a) EXCEPT !.to_refresh = TRUE]}
            ELSE {delete_char(move_current(a, LEFT))}
     ELSE IF a.mode = INSERT_BACK
       THEN IF a.r_current = 0
              THEN {[join_row(a) EXCEPT !.to_refresh = TRUE]}
            ELSE IF a.current_char = 0
              THEN IF line_size(a) = 1 THEN {delete_char(a)}
                   ELSE handle_backspace(
                          move_current([a EXCEPT !.mode = INSERT_FRONT], RIGHT))
            ELSE LET d == delete_char(a)
                 IN IF d.r_current = 0 THEN NullNextOutcomes(d)
                    ELSE IF d.r_current < line_size(d)
                      THEN {move_current(d, LEFT)}
                    ELSE {d}
     ELSE {a}

\* ------------------------------------------------------- the dispatcher
\* Mode changes come from the key dispatcher.  Entering the command line
\* starts an empty command text.
set_mode(s, m) ==
  IF m = EX THEN [s EXCEPT !.mode = m, !.status_row = clear_row(@)]
  ELSE [s EXCEPT !.mode = m]

\* A key typed on the command line is added to the status line.
type_command(s, c) == [s EXCEPT !.status_row = add_char(@, c)]

\* ---------------------------------------------------------- construction
\* The documents a file can load as: n characters 1 .. n laid out over k
\* rows, the row boundaries given by a non-decreasing cut function.
Cuts(n, k) ==
  { f \in [0 .. k -> 0 .. n] :
      /\ f[0] = 0
      /\ f[k] = n
      /\ \A i \in 1 .. k : f[i - 1] <= f[i] }

RowsOf(n, k, f) ==
  [i \in 1 .. k |-> [id |-> i,
                     chars |-> [j \in 1 .. (f[i] - f[i - 1]) |-> f[i - 1] + j]]]

Documents ==
  { RowsOf(n, k, f) : <<n, k, f>> \in
      { t \in UNION { {<<n, k, f>> : f \in Cuts(n, k)} :
                        <<n, k>> \in (0 .. MaxChars) \X (1 .. MaxRows) } :
          TRUE } }

\* init_state: fields set, then update_state.
init_state(doc, nw) ==
  update_state(
    [mode |-> NORMAL, cx |-> 0, cy |-> 0, top_row |-> 0, to_refresh |-> TRUE,
     padding_front |-> 0,
     rows |-> doc, current_row |-> 0, current_char |-> 0,
     r_current |-> IF doc[1].chars = <<>> THEN 0 ELSE 1,
     status_row |-> <<>>,
     num_windows |-> nw,
     windows |-> [j \in 1 .. nw |-> [r |-> NullRow, line_number |-> 0]],
     status_bound |-> FALSE, fault |-> FALSE])

\* ------------------------------------------------------------- history
\* lastOp names the last operation run and lastMode the mode it was called
\* in.  snap follows a line break typed in INSERT_BACK on the last character
\* of a line: the text before the line break, and whether the backward
\* delete that directly follows it has run.
NoSnap == [stage |-> "none", content |-> <<>>]

InitWith(s) ==
  /\ mode = s.mode
  /\ cx = s.cx
  /\ cy = s.cy
  /\ top_row = s.top_row
  /\ to_refresh = s.to_refresh
  /\ padding_front = s.padding_front
  /\ rows = s.rows
  /\ current_row = s.current_row
  /\ current_char = s.current_char
  /\ r_current = s.r_current
  /\ status_row = s.status_row
  /\ num_windows = s.num_windows
  /\ windows = s.windows
  /\ status_bound = s.status_bound
  /\ fault = s.fault
  /\ lastMode = s.mode
  /\ recomputed = TRUE

Init ==
  \E doc \in Documents, nw \in 1 .. MaxWindows :
    /\ InitWith(init_state(doc, nw))
    /\ lastOp = "init_state"
    /\ snap = NoSnap

\* ---------------------------------------------------------------- actions
\* The address the allocator hands to split_row: one that belongs to no live
\* row and that no window still holds, so that a window left pointing at a
\* released row is never mistaken for a window pointing at a new one.
FreeIds ==
  RowIds \ ({rows[i].id : i \in 1 .. Len(rows)}
              \cup {windows[j].r : j \in 1 .. Len(windows)})

NewRowId == CHOOSE id \in FreeIds : \A other \in FreeIds : id <= other

\* A line break typed in INSERT_BACK with the cursor on the last character.
EnterAtLineEnd ==
  /\ mode = INSERT_BACK
  /\ r_current # 0
  /\ r_current = Len(rows[current_row + 1].chars)

\* A fault ends the run.  The dispatcher handles one key at a time: one
\* operation, then update_state, before the next key; recomputed tells that
\* update_state has run since the last operation.
Running == ~fault
MayCall == Running /\ recomputed

UpdateState ==
  /\ Running
  /\ Store(update_state(St))
  /\ lastOp' = IF lastOp \in {"update_state", "update_state_again"}
                 THEN "update_state_again" ELSE "update_state"
  /\ lastMode' = mode
  /\ snap' = snap
  /\ recomputed' = TRUE

MoveCursor ==
  /\ MayCall
  /\ \E d \in Directions : Store(move_cursor(St, d))
  /\ lastOp' = "move_cursor"
  /\ lastMode' = mode
  /\ snap' = NoSnap
  /\ recomputed' = FALSE

HandleEnter ==
  /\ MayCall
  /\ Len(rows) < MaxRows
  /\ Store(handle_enter(St, NewRowId))
  /\ lastOp' = "handle_enter"
  /\ lastMode' = mode
  /\ snap' = IF EnterAtLineEnd
               THEN [stage |-> "entered", content |-> Content(rows)]
               ELSE NoSnap
  /\ recomputed' = FALSE

HandleBackspace ==
  /\ MayCall
  /\ \E t \in handle_backspace(St) : Store(t)
  /\ lastOp' = "handle_backspace"
  /\ lastMode' = mode
  /\ snap' = IF snap.stage = "entered"
               THEN [snap EXCEPT !.stage = "deleted"] ELSE NoSnap
  /\ recomputed' = FALSE

SetMode ==
  /\ MayCall
  /\ \E m \in Modes \ {mode} : Store(set_mode(St, m))
  /\ lastOp' = "set_mode"
  /\ lastMode' = mode
  /\ snap' = NoSnap
  /\ recomputed' = FALSE

TypeCommand ==
  /\ MayCall
  /\ mode = EX
  /\ Len(status_row) < MaxCmdLen
  /\ \E c \in CmdChars : Store(type_command(St, c))
  /\ lastOp' = "type_command"
  /\ lastMode' = mode
  /\ snap' = NoSnap
  /\ recomputed' = FALSE

Next ==
  \/ UpdateState
  \/ MoveCursor
  \/ HandleEnter
  \/ HandleBackspace
  \/ SetMode
  \/ TypeCommand

Spec == Init /\ [][Next]_vars

AfterUpdate == lastOp \in {"init_state", "update_state", "update_state_again"}

\* ------------------------------------------- the viewport specification
\* update_top_row on its own.  The inputs are the states the editor is in
\* when update_state is called: the windows were laid out with the cursor on
\* row top, the cursor has since gone to any row cur of the document, and a
\* relayout may or may not be pending.  snap keeps the input.
ViewInput(k, top, cur, nw, refresh) ==
  LET doc == [i \in 1 .. k |-> [id |-> i, chars |-> <<>>]]
      laid == update_state(
                [mode |-> NORMAL, cx |-> 0, cy |-> 0, top_row |-> top,
                 to_refresh |-> TRUE, padding_front |-> 0,
                 rows |-> doc, current_row |-> top, current_char |-> 0,
                 r_current |-> 0, status_row |-> <<>>,
                 num_windows |-> nw,
                 windows |-> [j \in 1 .. nw |-> [r |-> NullRow, line_number |-> 0]],
                 status_bound |-> FALSE, fault |-> FALSE])
  IN [laid EXCEPT !.current_row = cur, !.to_refresh = refresh]

InitViewport ==
  \E k \in 1 .. ViewRows, nw \in 1 .. MaxWindows, refresh \in BOOLEAN :
    \E top \in 0 .. k - 1, cur \in 0 .. k - 1 :
      /\ InitWith(ViewInput(k, top, cur, nw, refresh))
      /\ lastOp = "input"
      /\ snap = [stage |-> "input",
                 content |-> [top_row |-> top, current_row |-> cur,
                              to_refresh |-> refresh]]

UpdateTopRow ==
  /\ lastOp = "input"
  /\ Store(update_top_row(St))
  /\ lastOp' = "update_top_row"
  /\ UNCHANGED <<lastMode, snap, recomputed>>

UpdateStateView ==
  /\ lastOp = "input"
  /\ Store(update_state(St))
  /\ lastOp' = "update_state"
  /\ UNCHANGED <<lastMode, snap, recomputed>>

NextViewport == UpdateTopRow \/ UpdateStateView

SpecViewport == InitViewport /\ [][NextViewport]_vars

\* The input of the viewport specification.
In == snap.content

RowVisible == top_row <= current_row /\ current_row < top_row + num_windows

\* ================================================================ claims

\* C1: after update_top_row, and so after every update_state, the current
\* row is visible: top_row <= current_row < top_row + num_windows, for every
\* top_row, current_row and num_windows >= 1.
C1_CurrentRowVisible ==
  lastOp \in {"update_top_row", "update_state"} => RowVisible

\* C1 witness: update_top_row has scrolled down onto a row that was below
\* the viewport.
C1_Witness ==
  /\ lastOp = "update_top_row"
  /\ In.current_row >= In.top_row + num_windows
  /\ top_row > In.top_row

\* C10: update_top_row scrolls by the minimum amount: to
\* current_row - num_windows + 1 when the row is below the viewport, to
\* current_row when it is above; either way to_refresh becomes true.
C10_MinimalScroll ==
  lastOp = "update_top_row" =>
    /\ In.current_row >= In.top_row + num_windows =>
         (top_row = In.current_row - num_windows + 1 /\ to_refresh)
    /\ In.current_row < In.top_row =>
         (top_row = In.current_row /\ to_refresh)

\* C10 witness: a scroll up from an input with no relayout pending.
C10_Witness ==
  /\ lastOp = "update_top_row"
  /\ In.current_row < In.top_row
  /\ ~In.to_refresh
  /\ to_refresh
  /\ top_row = current_row

\* C2: after a relayout with the current row visible, slot k shows document
\* row top_row + k with line number top_row + k + 1 when that row exists and
\* is empty (no row, line number 0) otherwise.
SlotsShow(s) ==
  \A k \in 0 .. s.num_windows - 1 :
    s.windows[k + 1] =
      IF s.top_row + k < Len(s.rows)
        THEN [r |-> s.rows[s.top_row + k + 1].id, line_number |-> s.top_row + k + 1]
        ELSE [r |-> NullRow, line_number |-> 0]

C2_RelayoutMapsRows ==
  (Running /\ RowVisible) => SlotsShow(update_scr_windows(St))

\* C2 witness: a line break and the backward delete after it were each
\* followed by update_state; the relayout filled the second slot with the
\* new row and then emptied it again.
C2_Witness ==
  /\ lastOp = "update_state"
  /\ snap.stage = "deleted"
  /\ num_windows = 2
  /\ Len(rows) = 1
  /\ windows[1] = [r |-> rows[1].id, line_number |-> 1]
  /\ windows[2] = [r |-> NullRow, line_number |-> 0]

\* C3: outside EX mode update_cursor_position gives
\* cx = base + extra + padding_front + 1, base being current_char, 0 on an
\* empty line, and line_size - 1 when current_char >= line_size; extra is 1
\* exactly in INSERT_BACK on a non-empty line.
C3_Base(s) ==
  IF line_size(s) = 0 THEN 0
  ELSE IF s.current_char >= line_size(s) THEN line_size(s) - 1
  ELSE s.current_char

C3_Extra(s) == IF s.mode = INSERT_BACK /\ line_size(s) # 0 THEN 1 ELSE 0

C3_CursorColumn ==
  (Running /\ mode # EX) =>
    update_cursor_position(St).cx
      = C3_Base(St) + C3_Extra(St) + padding_front + 1

\* C4: update_state is idempotent: run again with no operation in between,
\* it leaves top_row, padding_front, to_refresh, cx, cy, the status text and
\* every window slot as the first run left them.
Derived(s) ==
  <<s.top_row, s.padding_front, s.to_refresh, s.cx, s.cy, s.status_row, s.windows>>

C4_UpdateIdempotent ==
  (Running /\ AfterUpdate) => Derived(update_state(St)) = Derived(St)

\* C4 witness: update_state has run twice in a row, in INSERT_BACK mode on a
\* non-empty line of a scrolled viewport.
C4_Witness ==
  /\ lastOp = "update_state_again"
  /\ mode = INSERT_BACK
  /\ top_row > 0
  /\ r_current # 0

\* C5: handle_enter, handle_backspace, move_cursor and update_state change
\* the mode only from INSERT_BACK to INSERT_FRONT: handle_enter when it
\* advances right on a non-empty line, handle_backspace in its repair step
\* (offset 0 of a line with more than one character).
C5_OnlyInternalModeChange ==
  Running =>
    /\ \A t \in handle_backspace(St) :
         t.mode # mode =>
           /\ mode = INSERT_BACK /\ t.mode = INSERT_FRONT
           /\ r_current # 0 /\ current_char = 0 /\ line_size(St) > 1
    /\ Len(rows) < MaxRows =>
         LET t == handle_enter(St, NewRowId)
         IN t.mode # mode =>
              /\ mode = INSERT_BACK /\ t.mode = INSERT_FRONT
              /\ line_size(St) # 0
              /\ current_char # line_size(St) - 1
    /\ \A d \in Directions : move_cursor(St, d).mode = mode
    /\ update_state(St).mode = mode

\* C5 witness: handle_backspace was called in INSERT_BACK and has left the
\* editor in INSERT_FRONT.
C5_Witness ==
  /\ lastOp = "handle_backspace"
  /\ lastMode = INSERT_BACK
  /\ mode = INSERT_FRONT

\* C6: handle_backspace called in INSERT_FRONT never reaches an undefined
\* step: with no character before the cursor (line start, or an empty line
\* whose cursor references no character) it joins the line with the previous
\* one and marks the relayout, otherwise it deletes the character before the
\* cursor.
C6_BackspaceDefined ==
  (Running /\ mode = INSERT_FRONT) =>
    \A t \in handle_backspace(St) :
      /\ ~t.fault
      /\ IF r_current <= 1
           THEN /\ t.to_refresh
                /\ current_row > 0 =>
                     /\ num_rows(t) = num_rows(St) - 1
                     /\ t.rows[current_row].chars
                          = rows[current_row].chars \o CurrentChars(St)
           ELSE /\ num_rows(t) = num_rows(St)
                /\ CurrentChars(t)
                     = SubSeq(CurrentChars(St), 1, r_current - 2)
                         \o SubSeq(CurrentChars(St), r_current, line_size(St))

\* C7: a line break typed in INSERT_BACK on the last character of a line,
\* directly followed by a backward delete, restores the text of the
\* document: the same rows with the same characters, no placeholder left.
\* Stated for the two calls with the update_state of the first keypress in
\* between (snap), and for the two calls back to back.
C7_EnterBackspaceRoundTrip ==
  /\ snap.stage = "deleted" => Content(rows) = snap.content
  /\ (Running /\ EnterAtLineEnd /\ Len(rows) < MaxRows) =>
       \A t \in handle_backspace(handle_enter(St, NewRowId)) :
         Content(t.rows) = Content(rows)

\* C7 witness: the backward delete after such a line break has just run, on
\* a document whose line had more than one character.
C7_Witness ==
  /\ lastOp = "handle_backspace"
  /\ snap.stage = "deleted"
  /\ \E i \in 1 .. Len(rows) : Len(rows[i].chars) > 1
  /\ r_current > 1

\* C8: in INSERT_FRONT on a non-empty line each handle_backspace with a
\* character before the cursor shortens the line by one and brings the
\* cursor one character nearer the line start; with no character before the
\* cursor the call joins the line with the previous one and the row count
\* drops by exactly one.
C8_BackspaceShrinksThenJoins ==
  (Running /\ mode = INSERT_FRONT /\ line_size(St) > 0) =>
    \A t \in handle_backspace(St) :
      IF r_current > 1
        THEN /\ line_size(t) = line_size(St) - 1
             /\ num_rows(t) = num_rows(St)
             /\ t.current_row = current_row
             /\ t.r_current = r_current - 1
        ELSE current_row > 0 =>
               (num_rows(t) = num_rows(St) - 1 /\ t.to_refresh)

\* C8 witness: handle_backspace in INSERT_FRONT has joined the line onto a
\* non-empty previous line.
C8_Witness ==
  /\ lastOp = "handle_backspace"
  /\ lastMode = INSERT_FRONT
  /\ ~fault
  /\ to_refresh
  /\ ~recomputed
  /\ r_current > 1
  /\ Len(rows) < MaxRows

\* C9: handle_enter adds exactly one row and marks the relayout; on an empty
\* line in INSERT_FRONT the result is two empty lines.
C9_EnterAddsOneRow ==
  (Running /\ Len(rows) < MaxRows) =>
    LET t == handle_enter(St, NewRowId)
    IN /\ num_rows(t) = num_rows(St) + 1
       /\ t.to_refresh
       /\ (mode = INSERT_FRONT /\ line_size(St) = 0) =>
            /\ t.rows[current_row + 1].chars = <<>>
            /\ t.rows[current_row + 2].chars = <<>>
            /\ t.current_row = current_row + 1

\* C9 witness: handle_enter was called in INSERT_FRONT and the document is
\* now two empty lines.
C9_Witness ==
  /\ lastOp = "handle_enter"
  /\ lastMode = INSERT_FRONT
  /\ to_refresh
  /\ Len(rows) = 2
  /\ rows[1].chars = <<>>
  /\ rows[2].chars = <<>>
  /\ current_row = 1

\* C11: when the current row is already visible, update_top_row leaves
\* top_row and to_refresh as they were: a pending relayout stays pending and
\* none is requested.
C11_VisibleRowUntouched ==
  (/\ lastOp = "update_top_row"
   /\ In.top_row <= In.current_row
   /\ In.current_row < In.top_row + num_windows) =>
    (top_row = In.top_row /\ to_refresh = In.to_refresh)

\* C11 witness: update_top_row has run on a visible row below the top of a
\* scrolled viewport, with a relayout pending, and the relayout still is.
C11_Witness ==
  /\ lastOp = "update_top_row"
  /\ In.top_row > 0
  /\ In.top_row < In.current_row
  /\ In.current_row < In.top_row + num_windows
  /\ In.to_refresh
  /\ to_refresh
  /\ top_row = In.top_row

\* C12: after update_state padding_front is the number of decimal digits of
\* the row count plus one, and at least 2 (9 rows give 2, 10 rows give 3).
DecimalDigits(n) == IF n < 10 THEN 1 ELSE IF n < 100 THEN 2 ELSE 3

C12_GutterWidth ==
  lastOp = "update_state" =>
    /\ padding_front = DecimalDigits(Len(rows)) + 1
    /\ padding_front >= 2
    /\ Len(rows) = 9 => padding_front = 2
    /\ Len(rows) = 10 => padding_front = 3

\* C12 witness: update_state has run on a document of ten rows.
C12_Witness ==
  /\ lastOp = "update_state"
  /\ Len(rows) = 10
  /\ padding_front = 3

\* C13: in EX mode update_cursor_position puts the cursor on the status line
\* (cy = num_windows) at the end of the status text (cx = its length),
\* whatever the document cursor, top_row and padding_front are.
C13_ExCursorOnStatusLine ==
  (Running /\ mode = EX) =>
    LET t == update_cursor_position(St)
    IN /\ t.cy = num_windows
       /\ t.cx = Len(status_row)
       /\ \A p \in {0, 3}, top \in {0, MaxRows}, k \in {0, MaxChars} :
            LET u == update_cursor_position(
                       [St EXCEPT !.padding_front = p, !.top_row = top,
                                  !.current_char = k])
            IN u.cx = t.cx /\ u.cy = t.cy

\* C13 witness: update_state has run in EX mode with a character typed on
\* the status line and the document cursor away from the start of its line.
C13_Witness ==
  /\ lastOp = "update_state"
  /\ mode = EX
  /\ Len(status_row) = 1
  /\ current_char > 0
  /\ cx = 1
  /\ cy = num_windows

\* C14: in EX mode handle_backspace removes exactly the last character of
\* the status text and leaves the document's lines and characters, the row
\* count, the mode and to_refresh unchanged.
C14_ExBackspaceFrame ==
  (Running /\ mode = EX) =>
    \A t \in handle_backspace(St) :
      /\ status_row # <<>> =>
           t.status_row = SubSeq(status_row, 1, Len(status_row) - 1)
      /\ Len(t.status_row) <= Len(status_row)
      /\ t.rows = rows
      /\ t.current_row = current_row
      /\ t.mode = mode
      /\ t.to_refresh = to_refresh
      /\ ~t.fault

\* C14 witness: handle_backspace has run in EX mode on a status text of one
\* character (cx is still the length the last update_state saw) and the text
\* is now empty.
C14_Witness ==
  /\ lastOp = "handle_backspace"
  /\ lastMode = EX
  /\ mode = EX
  /\ cx = 1
  /\ status_row = <<>>
  /\ Len(rows) = 2

\* C15: update_state leaves the status text exactly "-- INSERT --" in
\* INSERT_FRONT and INSERT_BACK and exactly "-- NORMAL --" in NORMAL, whatever
\* it was before, and does not change it in EX.
C15_InsertLabel == <<"-", "-", " ", "I", "N", "S", "E", "R", "T", " ", "-", "-">>

C15_NormalLabel == <<"-", "-", " ", "N", "O", "R", "M", "A", "L", " ", "-", "-">>

C15_StatusLabel ==
  Running =>
    LET t == update_state(St)
    IN /\ mode \in {INSERT_FRONT, INSERT_BACK} => t.status_row = C15_InsertLabel
       /\ mode = NORMAL => t.status_row = C15_NormalLabel
       /\ mode = EX => t.status_row = status_row
       /\ (AfterUpdate /\ mode \in {INSERT_FRONT, INSERT_BACK}) =>
            status_row = C15_InsertLabel
       /\ (AfterUpdate /\ mode = NORMAL) => status_row = C15_NormalLabel

\* C15 witness: update_state has run twice in a row in INSERT_BACK, the
\* status text already holding a label, and the text is the label once.
C15_Witness ==
  /\ lastOp = "update_state_again"
  /\ mode = INSERT_BACK
  /\ status_row = C15_InsertLabel

\* C16: after every update_state that follows a handler, to_refresh is false
\* and every window slot shows row top_row + k of the document with line
\* number top_row + k + 1 when that row exists and is empty otherwise.
C16_NoStaleSlot ==
  (Running /\ lastOp \in {"update_state", "update_state_again"}) =>
    (~to_refresh /\ SlotsShow(St))

\* C16 witness: update_state has run after handle_enter at the end of a line
\* and after the handle_backspace that undid it, and the slot under the
\* joined row is empty again.
C16_Witness ==
  /\ lastOp = "update_state"
  /\ snap.stage = "deleted"
  /\ Len(rows) = 1
  /\ num_windows = 2
  /\ ~to_refresh
  /\ windows[2].r = NullRow

\* The number of nested handle_backspace calls a call makes: the only
\* recursive call is in the INSERT_BACK branch, at offset 0 of a line of more
\* than one character, after the mode is set to INSERT_FRONT.
RECURSIVE handle_backspace_depth(_)
handle_backspace_depth(s) ==
  IF /\ s.mode = INSERT_BACK
     /\ s.r_current # 0
     /\ s.current_char = 0
     /\ line_size(s) # 1
    THEN 1 + handle_backspace_depth(
               move_current([s EXCEPT !.mode = INSERT_FRONT], RIGHT))
    ELSE 0

C18_BackspaceRecursesOnce ==
  Running =>
    /\ handle_backspace(St) # {}
    /\ handle_backspace_depth(St) <= 1
    /\ handle_backspace_depth(St) = 1 =>
         /\ mode = INSERT_BACK
         /\ current_char = 0
         /\ line_size(St) > 1
         /\ \A t \in handle_backspace(St) :
              /\ ~t.fault
              /\ t.mode = INSERT_FRONT
              /\ t.current_char = 0
              /\ t.r_current = 1
              /\ t.current_row = current_row
              /\ CurrentChars(t) = Tail(CurrentChars(St))
              /\ \A i \in 1 .. Len(rows) :
                   i # current_row + 1 => t.rows[i] = rows[i]
              /\ num_rows(t) = num_rows(St)

\* C18 witness: handle_backspace was called in INSERT_BACK and returned in
\* INSERT_FRONT with the cursor on the first character of a shortened line.
C18_Witness ==
  /\ lastOp = "handle_backspace"
  /\ lastMode = INSERT_BACK
  /\ mode = INSERT_FRONT
  /\ ~fault
  /\ current_char = 0
  /\ r_current = 1
  /\ line_size(St) = MaxChars - 1

\* C19: in INSERT_BACK with the cursor on offset k >= 1 of a line longer than
\* k, handle_backspace deletes the character at offset k and leaves the
\* cursor on offset k - 1 in INSERT_BACK, so that after update_state cx is
\* one less than update_state gave before the call.
C19_BackspaceMovesLeft ==
  (/\ Running
   /\ AfterUpdate
   /\ mode = INSERT_BACK
   /\ current_char >= 1
   /\ current_char < line_size(St)) =>
    \A t \in handle_backspace(St) :
      LET cs == CurrentChars(St)
          k == current_char
      IN /\ CurrentChars(t) = SubSeq(cs, 1, k) \o SubSeq(cs, k + 2, Len(cs))
         /\ t.current_char = k - 1
         /\ t.mode = INSERT_BACK
         /\ update_state(t).cx = cx - 1

\* The three kinds of outcome of one handle_backspace call on the document.
C20_NoEdit(t) == Content(t.rows) = Content(rows)

C20_OneChar(t) ==
  /\ Len(t.rows) = Len(rows)
  /\ \E i \in 1 .. Len(rows) : \E j \in 1 .. Len(rows[i].chars) :
       /\ t.rows[i].chars = SubSeq(rows[i].chars, 1, j - 1)
                              \o SubSeq(rows[i].chars, j + 1, Len(rows[i].chars))
       /\ \A h \in 1 .. Len(rows) : h # i => t.rows[h].chars = rows[h].chars

C20_Joined(t) ==
  /\ current_row > 0
  /\ Len(t.rows) = Len(rows) - 1
  /\ t.rows[current_row].chars =
       rows[current_row].chars \o rows[current_row + 1].chars
  /\ \A h \in 1 .. Len(t.rows) :
       /\ h < current_row => t.rows[h].chars = rows[h].chars
       /\ h > current_row => t.rows[h].chars = rows[h + 1].chars

\* C20: one handle_backspace call makes at most one edit: in INSERT_FRONT and
\* INSERT_BACK it removes exactly one character with the row count unchanged,
\* or joins the current line onto the previous one with no character
\* removed, never both and never two characters (a call that finds nothing
\* to join on the first row, or that stops at a NULL read, makes none); at
\* offset 0 of a one-character line in INSERT_BACK it removes the character
\* and joins nothing; in NORMAL it changes neither the document, the status
\* line, the mode nor to_refresh.
C20_BackspaceOneEdit ==
  Running =>
    \A t \in handle_backspace(St) :
      /\ mode \in {INSERT_FRONT, INSERT_BACK} =>
           /\ C20_OneChar(t) \/ C20_Joined(t) \/ C20_NoEdit(t)
           /\ C20_NoEdit(t) => (current_row = 0 \/ t.fault)
           /\ (C20_OneChar(t) \/ C20_NoEdit(t)) => t.current_row = current_row
      /\ (mode = INSERT_BACK /\ current_char = 0 /\ line_size(St) = 1) =>
           /\ C20_OneChar(t)
           /\ line_size(t) = 0
           /\ t.to_refresh = to_refresh
           /\ t.mode = INSERT_BACK
      /\ mode = NORMAL =>
           /\ t.rows = rows
           /\ t.status_row = status_row
           /\ t.mode = NORMAL
           /\ t.to_refresh = to_refresh

\* C20 witness: handle_backspace in INSERT_BACK has deleted the only
\* character of the second line and joined nothing: two rows remain, the
\* current one empty, and no relayout is requested.
C20_Witness ==
  /\ lastOp = "handle_backspace"
  /\ lastMode = INSERT_BACK
  /\ mode = INSERT_BACK
  /\ ~fault
  /\ ~to_refresh
  /\ Len(rows) = 2
  /\ current_row = 1
  /\ rows[2].chars = <<>>
  /\ rows[1].chars # <<>>

====
